---- MODULE Spec2Model ----
(***************************************************************************)
(* The task lifecycle engine of the AI Agent Orchestration Hub             *)
(* (src/src/ai_agent_orchestration_hub/api.py): the in-memory stores, the  *)
(* request handler create_task, the execution coroutine execute_crew_task  *)
(* with its simulated-activity coroutine, log_execution, and the websocket *)
(* broadcaster.  asyncio runs the coroutines on one thread, so the code    *)
(* between two awaits is one atomic step; every await that can suspend     *)
(* (a websocket send, asyncio.sleep, the executor future) ends a step.     *)
(***************************************************************************)
EXTENDS Integers, Sequences, FiniteSets, TLC

\* Bounds of the model.
MaxTasks == 2
MaxClients == 2
\* how many tasks are submitted in a run that has observers
MaxObservedTasks == 1
\* how many of its activities a simulation is followed through
MaxSimulated == 2

Tasks == 1..MaxTasks
Clients == 1..MaxClients

\* ------------------------------------------------------------------ values

None == "None"
\* completed_at of a TaskResponse that was never set (Optional[datetime] = None)
NoTime == 0

\* the names of initialize_agents, in declaration order
AgentNames ==
    << "orchestration_coordinator", "task_allocation_manager",
       "research_intelligence_agent", "data_processing_specialist",
       "execution_monitor", "quality_assurance_specialist" >>

Agents == { AgentNames[i] : i \in 1..Len(AgentNames) }

\* inputs of POST /tasks: the task_description of the request body
Descriptions == { "", "analyze" }

\* what the external executor (crew.kickoff) can do: return an output object or raise
NoOutcome == [kind |-> "none", text |-> ""]
ExecOutcomes == { [kind |-> "ok", text |-> "R"], [kind |-> "raise", text |-> "boom"] }
\* what the constructor AiAgentOrchestrationHubCrew() can do
InitOutcomes == { [kind |-> "ok", text |-> ""], [kind |-> "raise", text |-> "boom"] }

\* str(result): the text of the executor's output object; str(e): the exception's message
Str(o) == o.text

\* total_expected_steps of log_execution
TotalExpectedSteps == 20

Min(a, b) == IF a < b THEN a ELSE b

\* a progress that counts down the steps left of the budget
ProgressRemaining(current_steps) ==
    Min(95, ((TotalExpectedSteps - Min(current_steps, TotalExpectedSteps)) * 100)
                \div TotalExpectedSteps)

\* a progress that is the number of steps, not their share of the budget
ProgressUnscaled(current_steps) == Min(95, current_steps)

\* int(min(95, (current_steps / total_expected_steps) * 100))
Progress(current_steps) == Min(95, (current_steps * 100) \div TotalExpectedSteps)

\* ------------------------------------------------------------------ state

VARIABLES
    active_tasks,      \* task id -> TaskResponse (the Task Store)
    task_results,      \* task id -> result text
    execution_logs,    \* task id -> sequence of ExecutionLog entries
    connected_clients, \* the list of subscribed websockets
    agent_statuses,    \* agent name -> AgentStatus (the Worker Registry)
    co,                \* coroutine -> its position and the frame of its broadcast
    socket,            \* websocket -> the state of its connection
    sending,           \* websocket -> the coroutines awaiting a send_text on it, in
                       \* the order of their calls
    inbox,             \* websocket -> the messages whose send_text to it has returned
                       \* (what the peer has received; kept by DeliverTo only)
    hash_seed,         \* the seed that salts the str hashes of the running process
    calls              \* the calls of the expander made so far: input and output

vars == << active_tasks, task_results, execution_logs, connected_clients,
           agent_statuses, co, socket, sending, inbox, hash_seed, calls >>

\* the coroutines of a task: the request handler, execute_crew_task, the simulation
Kinds == { "req", "main", "sim" }
CoIds == Tasks \X Kinds

Req(t) == << t, "req" >>
Main(t) == << t, "main" >>
Sim(t) == << t, "sim" >>

\* no message: the coroutine is in no broadcast_message call
NoMsg == << >>

\* a coroutine that does not exist (yet).  msg, snap, todo, disc and sent are the frame
\* of the broadcast_message call the coroutine is in: its argument, the copy of the
\* client list, what is left of it, the list disconnected, and the clients that got
\* the message
NoCo ==
    [ pc |-> 0, wait |-> "none", msg |-> NoMsg, snap |-> << >>, todo |-> << >>,
      disc |-> << >>, sent |-> {}, arg |-> "", outcome |-> NoOutcome ]

Put(f, k, v) == [ x \in (DOMAIN f) \cup {k} |-> IF x = k THEN v ELSE f[x] ]

\* the state the code of a step works on
State ==
    [ at |-> active_tasks, tr |-> task_results, el |-> execution_logs,
      cc |-> connected_clients, ag |-> agent_statuses, co |-> co ]

\* datetime.now() as read by the coroutine of task task_id: a logical clock that
\* ticks with every entry of the task's log (never 0, the value of an unset time)
Now(s, task_id) == 1 + Len(s.el[task_id])

\* ------------------------------------------------------------------ log_execution

LogEntry(agent, action, message, status) ==
    [ agent |-> agent, action |-> action, message |-> message, status |-> status ]

\* log_execution, lines 455-458: the entry is appended to the task's log
AppendLog(s, task_id, entry) ==
    LET el0 == IF task_id \in DOMAIN s.el THEN s.el ELSE Put(s.el, task_id, << >>)
    IN [ s EXCEPT !.el = [ el0 EXCEPT ![task_id] = Append(@, entry) ] ]

\* log_execution, lines 460-469: current agent, current step and progress of the task
UpdateTaskProgress(s, task_id, agent, action) ==
    IF task_id \in DOMAIN s.at
    THEN [ s EXCEPT !.at[task_id] =
             [ @ EXCEPT !.current_agent = agent,
                        !.current_step = action,
                        !.progress = Progress(Len(s.el[task_id])) ] ]
    ELSE s

\* log_execution, lines 471-476: the status of the agent the entry names
UpdateAgentStatus(s, agent, action, status) ==
    IF agent \in DOMAIN s.ag /\ agent # "system"
    THEN [ s EXCEPT !.ag[agent] =
             [ status |-> IF status = "running" THEN "busy" ELSE "ready",
               total_tasks_completed |->
                   IF action = "task_completed"
                   THEN @.total_tasks_completed + 1
                   ELSE @.total_tasks_completed ] ]
    ELSE s

\* log_execution up to its broadcast (lines 445-476)
LogExecution(s, task_id, agent, action, message, status) ==
    LET s1 == AppendLog(s, task_id, LogEntry(agent, action, message, status))
        s2 == UpdateTaskProgress(s1, task_id, agent, action)
    IN UpdateAgentStatus(s2, agent, action, status)

\* ------------------------------------------------------------------ broadcast_message

\* list.remove(client): the first occurrence is removed
RECURSIVE RemoveFirst(_, _)
RemoveFirst(list, client) ==
    IF list = << >> THEN << >>
    ELSE IF Head(list) = client THEN Tail(list)
    ELSE << Head(list) >> \o RemoveFirst(Tail(list), client)

InList(list, client) == \E i \in 1..Len(list) : list[i] = client

\* broadcast_message, lines 438-440: every disconnected client still in the list is removed
RECURSIVE RemoveDisconnected(_, _)
RemoveDisconnected(list, disconnected) ==
    IF disconnected = << >> THEN list
    ELSE LET client == Head(disconnected)
             rest == IF InList(list, client) THEN RemoveFirst(list, client) ELSE list
         IN RemoveDisconnected(rest, Tail(disconnected))

\* broadcast_message, lines 424-430: nothing to do without clients; otherwise the loop
\* starts on a copy of the list, and the coroutine awaits the first send
BroadcastBegin(s, k, message) ==
    IF s.cc = << >>
    THEN [ s EXCEPT !.co[k].pc = @ + 1 ]
    ELSE [ s EXCEPT !.co[k] = [ @ EXCEPT !.wait = "send", !.msg = message, !.snap = s.cc,
                                         !.todo = s.cc, !.disc = << >>, !.sent = {} ] ]

\* broadcast_message, lines 431-435: one send_text has returned (ok) or raised
BroadcastSend(s, k, ok) ==
    LET client == Head(s.co[k].todo)
    IN [ s EXCEPT !.co[k] =
           [ @ EXCEPT !.todo = Tail(@),
                      !.sent = IF ok THEN @ \cup {client} ELSE @,
                      !.disc = IF ok THEN @ ELSE Append(@, client) ] ]

\* broadcast_message that returns without removing the disconnected clients
BroadcastEndKeepsAll(s, k) ==
    [ s EXCEPT !.co[k] = [ @ EXCEPT !.wait = "run", !.pc = @ + 1, !.msg = NoMsg,
                                    !.snap = << >>, !.todo = << >>, !.disc = << >>,
                                    !.sent = {} ] ]

\* broadcast_message, lines 437-443: after the loop the disconnected clients are removed
\* and the call returns to the statement after it
BroadcastEnd(s, k) ==
    [ s EXCEPT !.cc = RemoveDisconnected(s.cc, s.co[k].disc),
               !.co[k] = [ @ EXCEPT !.wait = "run", !.pc = @ + 1, !.msg = NoMsg,
                                    !.snap = << >>, !.todo = << >>, !.disc = << >>,
                                    !.sent = {} ] ]

\* ------------------------------------------------------------------ the coroutines

\* one statement of a coroutine: what it does and, for a log entry, its arguments
Op(op, agent, action, status) ==
    [ op |-> op, agent |-> agent, action |-> action, status |-> status ]

Do(op) == Op(op, "", "", "")

\* log_execution(task_id, agent, action, message, status)
Log(agent, action, status) == << Op("log", agent, action, status) >>

\* CrewExecutionMonitor.log_step: log_execution, then asyncio.sleep(0.5)
LogStep(agent, action, status) == << Op("log", agent, action, status), Do("sleep") >>

\* broadcast_message({"type": type, ...})
Broadcast(type) == << Op("bcast", "", type, "") >>

\* create_task that schedules the execution before it logs and notifies
CreateTaskSchedulesFirst ==
    << Do("create"), Do("schedule") >>
    \o Log("system", "task_created", "info")
    \o Broadcast("task_created")
    \o << Do("return") >>

\* create_task, lines 146-174
CreateTaskProgram ==
    << Do("create") >>
    \o Log("system", "task_created", "info")
    \o Broadcast("task_created")
    \o << Do("schedule"), Do("return") >>

\* a try block that starts the simulation before the last two pre-execution events
ExecuteTrySimulatesEarly ==
    << Do("set_running") >>
    \o LogStep("system", "task_started", "running")
    \o Broadcast("task_started")
    \o LogStep("system", "crew_initialization", "running")
    \o << Do("crew_init") >>
    \o LogStep("orchestration_coordinator", "strategy_analysis", "running")
    \o LogStep("orchestration_coordinator", "agent_selection", "running")
    \o << Do("spawn_sim") >>
    \o LogStep("task_allocation_manager", "resource_allocation", "running")
    \o LogStep("system", "crew_execution", "running")
    \o << Do("await_exec"), Do("cancel_sim") >>
    \o LogStep("quality_assurance_specialist", "final_validation", "running")
    \o LogStep("system", "result_compilation", "running")
    \o << Do("store_result") >>
    \o LogStep("system", "task_completed", "completed")
    \o << Do("reset_agents") >>
    \o Broadcast("task_completed")
    \o << Do("return") >>

\* execute_crew_task, the try block (lines 507-600)
ExecuteTry ==
    << Do("set_running") >>
    \o LogStep("system", "task_started", "running")
    \o Broadcast("task_started")
    \o LogStep("system", "crew_initialization", "running")
    \o << Do("crew_init") >>
    \o LogStep("orchestration_coordinator", "strategy_analysis", "running")
    \o LogStep("orchestration_coordinator", "agent_selection", "running")
    \o LogStep("task_allocation_manager", "resource_allocation", "running")
    \o LogStep("system", "crew_execution", "running")
    \o << Do("spawn_sim"), Do("await_exec"), Do("cancel_sim") >>
    \o LogStep("quality_assurance_specialist", "final_validation", "running")
    \o LogStep("system", "result_compilation", "running")
    \o << Do("store_result") >>
    \o LogStep("system", "task_completed", "completed")
    \o << Do("reset_agents") >>
    \o Broadcast("task_completed")
    \o << Do("return") >>

\* execute_crew_task, the except block (lines 602-620)
ExecuteExcept ==
    << Do("fail") >>
    \o LogStep("system", "error", "error")
    \o << Do("reset_agents") >>
    \o Broadcast("task_failed")
    \o << Do("return") >>

ExecuteCrewTaskProgram == ExecuteTry \o ExecuteExcept

\* the first statement of the except block
ExceptPc == Len(ExecuteTry) + 1

\* simulate_agent_activities, the list of lines 550-561
Activities ==
    << << "research_intelligence_agent", "data_gathering" >>,
       << "research_intelligence_agent", "source_analysis" >>,
       << "data_processing_specialist", "data_processing" >>,
       << "data_processing_specialist", "quality_check" >>,
       << "execution_monitor", "progress_tracking" >>,
       << "execution_monitor", "performance_analysis" >>,
       << "quality_assurance_specialist", "output_validation" >>,
       << "quality_assurance_specialist", "compliance_check" >>,
       << "orchestration_coordinator", "coordination" >>,
       << "task_allocation_manager", "load_balancing" >> >>

\* simulate_agent_activities, lines 563-565: per activity a log_step and a sleep of 2
\* (the sleep of log_step and the sleep of 2 follow each other with no statement
\* between them: one suspension)
RECURSIVE SimulateFrom(_)
SimulateFrom(i) ==
    IF i > Len(Activities) THEN << Do("return") >>
    ELSE LogStep(Activities[i][1], Activities[i][2], "running") \o SimulateFrom(i + 1)

SimulateProgram == SimulateFrom(1)

Program(kind) ==
    CASE kind = "req" -> CreateTaskProgram
      [] kind = "main" -> ExecuteCrewTaskProgram
      [] kind = "sim" -> SimulateProgram

\* the message text of a log entry: the fixed texts are named by their action
Message(c, action) ==
    CASE action = "task_created" -> "Task created: " \o c.arg
      [] action = "task_started" -> "Starting task execution: " \o c.arg
      [] action = "error" -> "Task execution failed: " \o Str(c.outcome)
      [] OTHER -> action

\* create_task, lines 149-158: the record and the empty log of the new task
NewTask(s, task_id) ==
    [ s EXCEPT !.at = Put(s.at, task_id,
                          [ status |-> "created", progress |-> 0, result |-> None,
                            completed_at |-> NoTime, current_agent |-> None,
                            current_step |-> None, execution_log |-> << >> ]),
               !.el = Put(s.el, task_id, << >>) ]

\* asyncio.create_task(coroutine): the coroutine is scheduled, it has not run yet
Spawn(s, k, arg) ==
    [ s EXCEPT !.co[k] = [ NoCo EXCEPT !.pc = 1, !.wait = "ready", !.arg = arg ] ]

\* execute_crew_task without its line 509
SetRunningSkipped(s, task_id) == s

\* execute_crew_task, line 509
SetRunning(s, task_id) == [ s EXCEPT !.at[task_id].status = "running" ]

\* execute_crew_task without its line 575
CancelSimulationForgotten(s, task_id) == s

\* simulation_task.cancel(), line 575: a simulation that has not ended gets
\* CancelledError at the await it is suspended in, which no handler of it catches
CancelSimulation(s, task_id) ==
    IF s.co[Sim(task_id)].wait \in { "done", "none" } THEN s
    ELSE [ s EXCEPT !.co[Sim(task_id)] =
             [ @ EXCEPT !.wait = "cancelled", !.msg = NoMsg, !.snap = << >>,
                        !.todo = << >>, !.disc = << >>, !.sent = {} ] ]

\* execute_crew_task, lines 581-585
StoreResult(s, task_id, result) ==
    [ s EXCEPT !.tr = Put(s.tr, task_id, Str(result)),
               !.at[task_id] = [ @ EXCEPT !.status = "completed",
                                          !.completed_at = Now(s, task_id),
                                          !.progress = 100 ] ]

\* execute_crew_task, lines 603-606
HandleError(s, task_id, e) ==
    [ s EXCEPT !.at[task_id] = [ @ EXCEPT !.status = "failed", !.progress = 0 ],
               !.tr = Put(s.tr, task_id, "Error: " \o Str(e)) ]

\* execute_crew_task, lines 589-592 and 610-613
ResetAgents(s) ==
    [ s EXCEPT !.ag = [ a \in DOMAIN s.ag |-> [ s.ag[a] EXCEPT !.status = "ready" ] ] ]

\* log_execution, lines 479-486: the message that carries the entry just appended,
\* here the place of the entry in the task's log
LogMessage(s, task_id) == << task_id, "execution_log", Len(s.el[task_id]) >>

\* the messages of create_task and execute_crew_task: {"type": type, "task_id": task_id}
TypeMessage(task_id, type) == << task_id, type, 0 >>

\* One statement of coroutine k, which is running.  init is what the constructor of
\* the crew does if this statement is that call.
Step(s, k, init) ==
    LET c == s.co[k]
        t == k[1]
        o == Program(k[2])[c.pc]
        next == [ s EXCEPT !.co[k].pc = @ + 1 ]
    IN CASE o.op = "create" -> NewTask(next, t)
         [] o.op = "log" ->
              LET s1 == LogExecution(s, t, o.agent, o.action, Message(c, o.action),
                                     o.status)
              IN BroadcastBegin(s1, k, LogMessage(s1, t))
         [] o.op = "bcast" -> BroadcastBegin(s, k, TypeMessage(t, o.action))
         [] o.op = "sleep" -> [ next EXCEPT !.co[k].wait = "sleep" ]
         [] o.op = "schedule" -> Spawn(next, Main(t), c.arg)
         [] o.op = "return" -> [ s EXCEPT !.co[k].wait = "done" ]
         [] o.op = "set_running" -> SetRunning(next, t)
         [] o.op = "crew_init" ->
              IF init.kind = "raise"
              THEN [ s EXCEPT !.co[k] = [ @ EXCEPT !.pc = ExceptPc, !.outcome = init ] ]
              ELSE next
         [] o.op = "spawn_sim" -> Spawn(next, Sim(t), c.arg)
         [] o.op = "await_exec" -> [ next EXCEPT !.co[k].wait = "exec" ]
         [] o.op = "cancel_sim" -> CancelSimulation(next, t)
         [] o.op = "store_result" -> StoreResult(next, t, c.outcome)
         [] o.op = "fail" -> HandleError(next, t, c.outcome)
         [] o.op = "reset_agents" -> ResetAgents(next)

\* coroutine k runs until its next suspension (or its end)
RECURSIVE Run(_, _, _)
Run(s, k, init) ==
    IF s.co[k].wait = "run" THEN Run(Step(s, k, init), k, init) ELSE s

\* coroutine k awaits a send_text on this websocket
SendsTo(cos, k, client) == cos[k].wait = "send" /\ Head(cos[k].todo) = client

RECURSIVE StillSending(_, _, _, _)
StillSending(queue, cos, k, client) ==
    IF queue = << >> THEN << >>
    ELSE IF Head(queue) # k /\ SendsTo(cos, Head(queue), client)
         THEN << Head(queue) >> \o StillSending(Tail(queue), cos, k, client)
         ELSE StillSending(Tail(queue), cos, k, client)

\* client.send_text, line 432: a websocket is one ordered stream.  After a step of
\* coroutine k the calls pending on a websocket are those that were pending and still
\* are, and then the call k has made in this step, if any.
Requeue(k) ==
    sending' = [ client \in Clients |->
                   StillSending(sending[client], co', k, client)
                       \o IF SendsTo(co', k, client) THEN << k >> ELSE << >> ]

\* the step is written to the variables
Commit(s) ==
    /\ active_tasks' = s.at
    /\ task_results' = s.tr
    /\ execution_logs' = s.el
    /\ connected_clients' = s.cc
    /\ agent_statuses' = s.ag
    /\ co' = s.co

Resume(k, init) ==
    /\ Commit(Run([ State EXCEPT !.co[k].wait = "run" ], k, init))
    /\ Requeue(k)

\* ------------------------------------------------------------------ actions

InitOk == [kind |-> "ok", text |-> ""]

\* a request body without a task_description string (TaskRequest, lines 29-31)
Missing == "<missing>"

\* uuid.uuid4(): an id no task has yet
FreshId == Cardinality(DOMAIN active_tasks) + 1

\* some client has connected
Observed == \E c \in Clients : socket[c] # "new"

\* POST /tasks.  A body that is no TaskRequest is answered 422 before create_task
\* runs; any string, the empty one too, is a task_description, and create_task runs
\* to its first suspension.
CreateTask(body) ==
    /\ FreshId \in Tasks
    /\ Observed => FreshId <= MaxObservedTasks
    /\ IF body = Missing
       THEN UNCHANGED vars
       ELSE /\ Commit(Run([ State EXCEPT !.co[Req(FreshId)] =
                                [ NoCo EXCEPT !.pc = 1, !.wait = "run", !.arg = body ] ],
                          Req(FreshId), InitOk))
            /\ Requeue(Req(FreshId))
            /\ UNCHANGED << socket, inbox, hash_seed, calls >>

\* the activity whose log_step is statement pc of the simulation
ActivityAt(pc) == (pc + 1) \div 2

\* the event loop resumes a coroutine that was scheduled or whose sleep is over
WakeUp(k, init) ==
    /\ co[k].wait \in { "ready", "sleep" }
    /\ k[2] = "sim" => ActivityAt(co[k].pc) <= MaxSimulated
    /\ Resume(k, init)
    /\ UNCHANGED << socket, inbox, hash_seed, calls >>

\* the send_text a broadcast is suspended in returns or raises; a send to a socket
\* that takes no more data does neither.  The calls on one websocket return in the
\* order they were made; a call on a closed connection raises whenever it is looked at.
SendText(k) ==
    /\ co[k].wait = "send"
    /\ socket[Head(co[k].todo)] \in { "open", "closed" }
    /\ socket[Head(co[k].todo)] = "open" => Head(sending[Head(co[k].todo)]) = k
    /\ LET s1 == BroadcastSend(State, k, socket[Head(co[k].todo)] = "open")
       IN IF s1.co[k].todo = << >>
          THEN Commit(Run(BroadcastEnd(s1, k), k, InitOk))
          ELSE Commit(s1)
    /\ Requeue(k)
    /\ UNCHANGED << socket, hash_seed, calls >>

Send(k) == SendText(k) /\ UNCHANGED inbox

\* the same step, with the peer's side of it: a send_text that returned has handed
\* the message to the peer
DeliverTo(k) ==
    /\ SendText(k)
    /\ inbox' = IF socket[Head(co[k].todo)] = "open"
                THEN [ inbox EXCEPT ![Head(co[k].todo)] = Append(@, co[k].msg) ]
                ELSE inbox

\* run_in_executor (line 572) completes: crew.kickoff returned or raised.  The
\* simulation was scheduled before the executor was started, so it has run its
\* first step by then.
ExecutorReturns(t, outcome) ==
    /\ co[Main(t)].wait = "exec"
    /\ co[Sim(t)].wait # "ready"
    /\ Commit(Run([ State EXCEPT !.co[Main(t)] =
                      [ @ EXCEPT !.wait = "run", !.outcome = outcome,
                                 !.pc = IF outcome.kind = "raise" THEN ExceptPc ELSE @ ] ],
                  Main(t), InitOk))
    /\ Requeue(Main(t))
    /\ UNCHANGED << socket, inbox, hash_seed, calls >>

\* get_task, lines 177-190: the stored record gets the result and a copy of the log,
\* and is returned
Snapshot(task_id) ==
    LET task == IF task_id \in DOMAIN task_results
                THEN [ active_tasks[task_id] EXCEPT !.result = task_results[task_id] ]
                ELSE active_tasks[task_id]
    IN IF task_id \in DOMAIN execution_logs
       THEN [ task EXCEPT !.execution_log = execution_logs[task_id] ]
       ELSE task

GetTask(task_id) ==
    /\ task_id \in DOMAIN active_tasks
    /\ active_tasks' = [ active_tasks EXCEPT ![task_id] = Snapshot(task_id) ]
    /\ UNCHANGED << task_results, execution_logs, connected_clients, agent_statuses,
                    co, socket, sending, inbox, hash_seed,
                    calls >>

\* execution_logs[task_id][-5:]
LastLogs(list) == SubSeq(list, IF Len(list) > 5 THEN Len(list) - 4 ELSE 1, Len(list))

\* get_all_tasks, lines 203-208: what the loop does to one stored record
Listed(task_id) ==
    LET task == IF task_id \in DOMAIN task_results
                THEN [ active_tasks[task_id] EXCEPT !.result = task_results[task_id] ]
                ELSE active_tasks[task_id]
    IN IF task_id \in DOMAIN execution_logs
       THEN [ task EXCEPT !.execution_log = LastLogs(execution_logs[task_id]) ]
       ELSE task

\* get_all_tasks that cuts the stored logs themselves to their last entries
GetAllTasksCutsLogs ==
    /\ active_tasks' = [ t \in DOMAIN active_tasks |-> Listed(t) ]
    /\ execution_logs' = [ t \in DOMAIN execution_logs |-> LastLogs(execution_logs[t]) ]
    /\ UNCHANGED << task_results, connected_clients, agent_statuses,
                    co, socket, sending, inbox, hash_seed,
                    calls >>

\* get_all_tasks, lines 200-211
GetAllTasks ==
    /\ active_tasks' = [ t \in DOMAIN active_tasks |-> Listed(t) ]
    /\ UNCHANGED << task_results, execution_logs, connected_clients, agent_statuses,
                    co, socket, sending, inbox, hash_seed,
                    calls >>

\* get_task_logs, lines 192-198: 404 for an unknown id, else the entries of the log
GetTaskLogs(task_id) ==
    /\ task_id \in DOMAIN execution_logs
    /\ UNCHANGED vars

\* get_agents, lines 131-134
GetAgents == UNCHANGED vars

\* websocket_endpoint, lines 372-373: a client connects and is subscribed
Connect(client) ==
    /\ socket[client] = "new"
    /\ Cardinality(DOMAIN active_tasks) <= MaxObservedTasks
    /\ socket' = [ socket EXCEPT ![client] = "open" ]
    /\ connected_clients' = Append(connected_clients, client)
    /\ UNCHANGED << active_tasks, task_results, execution_logs, agent_statuses, co,
                    sending, inbox, hash_seed,
                    calls >>

\* the peer closes the connection: every later send_text to it raises
ClientCloses(client) ==
    /\ socket[client] = "open"
    /\ socket' = [ socket EXCEPT ![client] = "closed" ]
    /\ UNCHANGED << active_tasks, task_results, execution_logs, connected_clients,
                    agent_statuses, co, sending, inbox, hash_seed,
                    calls >>

\* the peer stops reading: a send_text to it never completes
ClientStalls(client) ==
    /\ socket[client] = "open"
    /\ socket' = [ socket EXCEPT ![client] = "stuck" ]
    /\ UNCHANGED << active_tasks, task_results, execution_logs, connected_clients,
                    agent_statuses, co, sending, inbox, hash_seed,
                    calls >>

\* websocket_endpoint, lines 413-420: the handler sees the disconnect and unsubscribes
Unsubscribe(client) ==
    /\ socket[client] = "closed"
    /\ InList(connected_clients, client)
    /\ connected_clients' = RemoveFirst(connected_clients, client)
    /\ UNCHANGED << active_tasks, task_results, execution_logs, agent_statuses, co,
                    socket, sending, inbox, hash_seed,
                    calls >>

\* initialize_agents, lines 102-121, and the empty stores of lines 93-97
InitStores ==
    /\ active_tasks = << >>
    /\ task_results = << >>
    /\ execution_logs = << >>
    /\ connected_clients = << >>
    /\ agent_statuses = [ a \in Agents |-> [ status |-> "ready", total_tasks_completed |-> 0 ] ]
    /\ co = [ k \in CoIds |-> NoCo ]
    /\ socket = [ c \in Clients |-> "new" ]
    /\ sending = [ c \in Clients |-> << >> ]
    /\ inbox = [ c \in Clients |-> << >> ]

\* the engine after its start; the expander has not been called
Init ==
    /\ InitStores
    /\ hash_seed = 1
    /\ calls = << >>

Next ==
    \/ \E body \in Descriptions \cup { Missing } : CreateTask(body)
    \/ \E k \in CoIds, init \in InitOutcomes : WakeUp(k, init)
    \/ \E k \in CoIds : Send(k)
    \/ \E t \in Tasks, outcome \in ExecOutcomes : ExecutorReturns(t, outcome)
    \/ \E t \in Tasks : GetTask(t)
    \/ GetAllTasks
    \/ \E t \in Tasks : GetTaskLogs(t)
    \/ GetAgents
    \/ \E c \in Clients : Connect(c)
    \/ \E c \in Clients : ClientCloses(c)
    \/ \E c \in Clients : ClientStalls(c)
    \/ \E c \in Clients : Unsubscribe(c)

Spec == Init /\ [][Next]_vars

\* One submitted task and what its observers receive: the requests are a single
\* POST /tasks and the websocket connections, and every message handed to a peer is
\* kept in inbox.
ObservedNext ==
    \/ FreshId = 1 /\ CreateTask("analyze")
    \/ \E k \in CoIds, init \in InitOutcomes : WakeUp(k, init)
    \/ \E k \in CoIds : DeliverTo(k)
    \/ \E t \in Tasks, outcome \in ExecOutcomes : ExecutorReturns(t, outcome)
    \/ \E c \in Clients : Connect(c)
    \/ \E c \in Clients : ClientCloses(c)
    \/ \E c \in Clients : ClientStalls(c)
    \/ \E c \in Clients : Unsubscribe(c)

ObservedSpec == Init /\ [][ObservedNext]_vars

\* One submitted task and its observers under the scheduling of the event loop: a
\* coroutine that is ready or whose sleep is over is resumed, a send_text that can
\* return or raise does so, and the executor call ends.  Requests, connections and
\* what the peers do are not forced.
ScheduledNext ==
    \/ FreshId = 1 /\ \E body \in Descriptions : CreateTask(body)
    \/ \E k \in CoIds, init \in InitOutcomes : WakeUp(k, init)
    \/ \E k \in CoIds : Send(k)
    \/ \E t \in Tasks, outcome \in ExecOutcomes : ExecutorReturns(t, outcome)
    \/ \E c \in Clients : Connect(c)
    \/ \E c \in Clients : ClientCloses(c)
    \/ \E c \in Clients : ClientStalls(c)
    \/ \E c \in Clients : Unsubscribe(c)

Scheduling ==
    /\ \A k \in CoIds : WF_vars(\E init \in InitOutcomes : WakeUp(k, init))
    /\ \A k \in CoIds : WF_vars(Send(k))
    /\ \A t \in Tasks : WF_vars(\E outcome \in ExecOutcomes : ExecutorReturns(t, outcome))

ScheduledSpec == Init /\ [][ScheduledNext]_vars /\ Scheduling

\* the event loop resumes a coroutine that was scheduled or whose sleep is over, the
\* simulation too, whatever the number of its activities
RunsOn(k, init) ==
    /\ co[k].wait \in { "ready", "sleep" }
    /\ Resume(k, init)
    /\ UNCHANGED << socket, inbox, hash_seed, calls >>

\* One submitted task without observers, its simulation followed through all its
\* activities.
FullRunNext ==
    \/ FreshId = 1 /\ \E body \in Descriptions : CreateTask(body)
    \/ \E k \in CoIds, init \in InitOutcomes : RunsOn(k, init)
    \/ \E t \in Tasks, outcome \in ExecOutcomes : ExecutorReturns(t, outcome)

FullRunSpec == Init /\ [][FullRunNext]_vars

\* how many events are appended for an id that is not in the store
MaxStrayEvents == 2

\* a task id that create_task has stored no record for
UnknownId == 0

\* log_execution called with an id that is not in active_tasks, while no observer is
\* subscribed (broadcast_message returns at once, line 424): lines 445-486 in one step
LogExecutionOf(task_id, agent, action, status) ==
    /\ task_id \notin DOMAIN active_tasks
    /\ connected_clients = << >>
    /\ task_id \in DOMAIN execution_logs => Len(execution_logs[task_id]) < MaxStrayEvents
    /\ Commit(LogExecution(State, task_id, agent, action, action, status))
    /\ UNCHANGED << socket, sending, inbox, hash_seed, calls >>

\* One submitted task without observers, and direct calls of log_execution for an id
\* that was never stored.
DirectCallNext ==
    \/ FreshId = 1 /\ \E body \in Descriptions : CreateTask(body)
    \/ \E k \in CoIds, init \in InitOutcomes : WakeUp(k, init)
    \/ \E t \in Tasks, outcome \in ExecOutcomes : ExecutorReturns(t, outcome)
    \/ \E agent \in { "system", "execution_monitor" }, status \in { "running", "error" } :
           LogExecutionOf(UnknownId, agent, "progress_tracking", status)

DirectCallSpec == Init /\ [][DirectCallNext]_vars

\* ------------------------------------------------------------------ the expander
\* (src/src/ai_agent_orchestration_hub/intelligent_agent_creator.py)

\* Bounds of the expander's inputs.
MaxWords == 2
MaxCalls == 2
MaxHashSeeds == 2

\* the words an input text is made of; a text is the set of its words (the code
\* only asks whether a pattern occurs in the lowercased text)
Words == { "research", "analyze", "monitor", "quality", "creative", "leader" }

Texts == { text \in SUBSET Words : Cardinality(text) <= MaxWords }

HashSeeds == 1..MaxHashSeeds

\* _extract_intent, lines 351-358
intent_patterns ==
    << << "analyze", { "analyze", "analysis", "examine", "study", "investigate", "research" } >>,
       << "create", { "create", "build", "develop", "generate", "produce", "make" } >>,
       << "manage", { "manage", "coordinate", "organize", "lead", "oversee", "direct" } >>,
       << "optimize", { "optimize", "improve", "enhance", "streamline", "refine" } >>,
       << "monitor", { "monitor", "track", "watch", "observe", "check" } >>,
       << "validate", { "validate", "verify", "test", "ensure", "confirm" } >> >>

\* _extract_domain, lines 368-374
domain_keywords ==
    << << "business", { "business", "market", "sales", "revenue", "strategy", "commercial" } >>,
       << "technology", { "tech", "software", "system", "platform", "digital", "technical" } >>,
       << "marketing", { "marketing", "brand", "campaign", "content", "social", "promotion" } >>,
       << "operations", { "operations", "process", "workflow", "efficiency", "logistics" } >>,
       << "research", { "research", "data", "analysis", "insights", "intelligence", "study" } >> >>

\* _extract_functions, lines 385-392
function_patterns ==
    << << "research", { "research", "gather", "collect", "find", "discover" } >>,
       << "analysis", { "analyze", "evaluate", "assess", "examine", "study" } >>,
       << "creation", { "create", "build", "develop", "generate", "produce" } >>,
       << "coordination", { "coordinate", "manage", "organize", "orchestrate" } >>,
       << "monitoring", { "monitor", "track", "observe", "watch", "check" } >>,
       << "quality_control", { "validate", "verify", "test", "ensure", "check" } >> >>

\* _extract_traits, lines 403-409
trait_indicators ==
    << << "analytical", { "analytical", "logical", "systematic", "methodical", "detailed" } >>,
       << "creative", { "creative", "innovative", "original", "imaginative", "artistic" } >>,
       << "leadership", { "leader", "manager", "coordinator", "director", "supervisor" } >>,
       << "technical", { "technical", "expert", "specialist", "skilled", "proficient" } >>,
       << "collaborative", { "team", "collaborative", "cooperative", "social", "communicative" } >> >>

\* _extract_expertise, lines 420-427
expertise_keywords ==
    << << "data_analysis", { "data", "analytics", "statistics", "metrics", "insights" } >>,
       << "market_research", { "market", "research", "competitive", "industry", "trends" } >>,
       << "content_creation", { "content", "writing", "creative", "messaging", "communication" } >>,
       << "process_optimization", { "process", "optimization", "efficiency", "workflow", "improvement" } >>,
       << "project_management", { "project", "management", "coordination", "planning", "execution" } >>,
       << "quality_assurance", { "quality", "testing", "validation", "standards", "compliance" } >> >>

\* _load_agent_archetypes, lines 61-110: the archetypes in declaration order
Archetypes == << "analyst", "creator", "coordinator", "specialist", "monitor", "quality_assurer" >>

\* the core_traits of each archetype
core_traits ==
    << << "analyst", { "analytical", "detail-oriented", "data-driven", "methodical" } >>,
       << "creator", { "creative", "innovative", "strategic", "visionary" } >>,
       << "coordinator", { "organized", "strategic", "leadership", "systematic" } >>,
       << "specialist", { "expert", "focused", "technical", "precise" } >>,
       << "monitor", { "vigilant", "systematic", "reliable", "thorough" } >>,
       << "quality_assurer", { "meticulous", "standards-focused", "thorough", "reliable" } >> >>

\* _determine_archetype, line 449: the pairs of an archetype and an intent with
\* any(goal in intent for goal in config['typical_goals'])
IntentAligned ==
    { << "analyst", "analyze" >>, << "creator", "create" >>,
      << "coordinator", "manage" >>, << "specialist", "optimize" >>,
      << "monitor", "monitor" >>, << "quality_assurer", "validate" >> }

\* _determine_archetype, line 454: the pairs of an archetype and a function with
\* function in str(config['preferred_tools'])
FunctionAligned ==
    { << "analyst", "research" >>, << "analyst", "analysis" >>,
      << "creator", "creation" >>, << "specialist", "analysis" >>,
      << "monitor", "analysis" >>, << "monitor", "monitoring" >> }

\* _load_tool_mappings, lines 149-160
tool_mappings ==
    << << "research", << "ArxivPaperTool", "ScrapeWebsiteTool", "FileReadTool" >> >>,
       << "analysis", << "ScrapeElementFromWebsiteTool", "FileReadTool" >> >>,
       << "content", << "FileReadTool", "ScrapeWebsiteTool" >> >>,
       << "monitoring", << "FileReadTool" >> >>,
       << "coordination", << "ScrapeWebsiteTool", "FileReadTool" >> >>,
       << "quality", << "FileReadTool" >> >>,
       << "data_processing", << "ScrapeElementFromWebsiteTool", "FileReadTool" >> >>,
       << "web_scraping", << "ScrapeWebsiteTool", "ScrapeElementFromWebsiteTool" >> >>,
       << "document_processing", << "FileReadTool" >> >>,
       << "general", << "ScrapeWebsiteTool", "FileReadTool" >> >> >>

\* _select_tools, lines 610-617
archetype_tools ==
    << << "analyst", << "ScrapeWebsiteTool", "FileReadTool" >> >>,
       << "creator", << "FileReadTool", "ScrapeWebsiteTool" >> >>,
       << "coordinator", << "ScrapeWebsiteTool", "FileReadTool" >> >>,
       << "specialist", << "ScrapeElementFromWebsiteTool", "FileReadTool" >> >>,
       << "monitor", << "FileReadTool" >> >>,
       << "quality_assurer", << "FileReadTool" >> >> >>

\* _generate_specializations, lines 663-669
domain_specializations ==
    << << "business", << "Strategic Planning", "Market Analysis", "Business Intelligence" >> >>,
       << "technology", << "System Architecture", "Technical Analysis", "Performance Optimization" >> >>,
       << "marketing", << "Brand Strategy", "Content Marketing", "Campaign Management" >> >>,
       << "operations", << "Process Optimization", "Quality Management", "Resource Planning" >> >>,
       << "research", << "Data Analysis", "Research Methodology", "Insight Generation" >> >> >>

\* _load_expertise_domains, lines 174-200: the specializations of each expertise domain
expertise_domains ==
    << << "business_intelligence", << "market analysis", "competitive intelligence", "business strategy" >> >>,
       << "data_science", << "data analysis", "statistical modeling", "predictive analytics" >> >>,
       << "content_creation", << "content strategy", "copywriting", "brand messaging" >> >>,
       << "process_optimization", << "process mapping", "workflow optimization", "efficiency analysis" >> >>,
       << "quality_assurance", << "quality control", "testing protocols", "compliance validation" >> >> >>

\* _generate_specializations, lines 680-687
function_specializations ==
    << << "research", << "Information Gathering", "Source Validation" >> >>,
       << "analysis", << "Data Interpretation", "Pattern Recognition" >> >>,
       << "creation", << "Solution Design", "Content Development" >> >>,
       << "coordination", << "Project Management", "Team Collaboration" >> >>,
       << "monitoring", << "Performance Tracking", "Alert Management" >> >>,
       << "quality_control", << "Quality Assurance", "Compliance Validation" >> >> >>

\* the patterns that are a proper part of a word of the vocabulary
PartOf ==
    { << "lead", "leader" >>, << "priority", "low priority" >> }

\* every string the expanders put into a set, in the order of its first mention
Interned ==
    << "ArxivPaperTool", "ScrapeWebsiteTool", "FileReadTool",
       "ScrapeElementFromWebsiteTool", "Strategic Planning", "Market Analysis",
       "Business Intelligence", "System Architecture", "Technical Analysis",
       "Performance Optimization", "Brand Strategy", "Content Marketing",
       "Campaign Management", "Process Optimization", "Quality Management",
       "Resource Planning", "Data Analysis", "Research Methodology",
       "Insight Generation", "market analysis", "competitive intelligence",
       "business strategy", "data analysis", "statistical modeling",
       "predictive analytics", "content strategy", "copywriting", "brand messaging",
       "process mapping", "workflow optimization", "efficiency analysis",
       "quality control", "testing protocols", "compliance validation",
       "Information Gathering", "Source Validation", "Data Interpretation",
       "Pattern Recognition", "Solution Design", "Content Development",
       "Project Management", "Team Collaboration", "Performance Tracking",
       "Alert Management", "Quality Assurance", "Compliance Validation",
       "orchestration_coordinator", "research_intelligence_agent",
       "data_processing_specialist", "quality_assurance_specialist",
       "execution_monitor", "task_allocation_manager" >>

\* pattern in text
Occurs(pattern, text) == \E w \in text : pattern = w \/ << pattern, w >> \in PartOf

\* the keys of a table whose any(pattern in text ...) holds, in the order of the table
RECURSIVE Matching(_, _)
Matching(table, text) ==
    IF table = << >> THEN << >>
    ELSE (IF \E pattern \in Head(table)[2] : Occurs(pattern, text)
          THEN << Head(table)[1] >> ELSE << >>)
         \o Matching(Tail(table), text)

\* table.get(key, []) of a table of lists
RECURSIVE Lookup(_, _)
Lookup(table, key) ==
    IF table = << >> THEN << >>
    ELSE IF Head(table)[1] = key THEN Head(table)[2] ELSE Lookup(Tail(table), key)

\* max(scores, key=scores.get): the first index with the highest score
ArgMax(scores) ==
    CHOOSE i \in DOMAIN scores :
        /\ \A j \in DOMAIN scores : scores[j] <= scores[i]
        /\ \A j \in DOMAIN scores : j < i => scores[j] < scores[i]

\* _extract_intent, lines 360-364
extract_intent(text) ==
    LET found == Matching(intent_patterns, text)
    IN IF found = << >> THEN "general" ELSE Head(found)

\* _extract_domain, lines 376-381
extract_domain(text) ==
    LET domain_scores ==
            [ i \in 1..Len(domain_keywords) |->
                Cardinality({ keyword \in domain_keywords[i][2] : Occurs(keyword, text) }) ]
        best == ArgMax(domain_scores)
    IN IF domain_scores[best] > 0 THEN domain_keywords[best][1] ELSE "general"

\* _extract_functions, lines 394-399
extract_functions(text) ==
    LET functions == Matching(function_patterns, text)
    IN IF functions = << >> THEN << "general" >> ELSE functions

\* _extract_traits, lines 411-416
extract_traits(text) ==
    LET traits == Matching(trait_indicators, text)
    IN IF traits = << >> THEN << "professional" >> ELSE traits

\* _extract_expertise, lines 429-434
extract_expertise(text) ==
    LET expertise == Matching(expertise_keywords, text)
    IN IF expertise = << >> THEN << "general" >> ELSE expertise

\* _parse_agent_input, lines 303-319
parse_agent_input(text) ==
    [ intent |-> extract_intent(text), domain |-> extract_domain(text),
      functions |-> extract_functions(text), traits |-> extract_traits(text),
      expertise |-> extract_expertise(text) ]

\* _determine_archetype, lines 436-464
determine_archetype(parsed_input) ==
    LET functions == parsed_input.functions
        traits == parsed_input.traits
        archetype_scores ==
            [ i \in 1..Len(Archetypes) |->
                (IF << Archetypes[i], parsed_input.intent >> \in IntentAligned
                 THEN 3 ELSE 0)
                + 2 * Cardinality({ f \in 1..Len(functions) :
                                      << Archetypes[i], functions[f] >> \in FunctionAligned })
                + 2 * Cardinality({ t \in 1..Len(traits) :
                                      traits[t] \in core_traits[i][2] }) ]
        best == ArgMax(archetype_scores)
    IN IF archetype_scores[best] > 0 THEN Archetypes[best] ELSE "specialist"

\* the lists of a table for the keys of a list, one after the other
\* (for key in keys: if key in table: selected.extend(table[key]))
RECURSIVE Extend(_, _)
Extend(table, keys) ==
    IF keys = << >> THEN << >>
    ELSE Lookup(table, Head(keys)) \o Extend(table, Tail(keys))

Elements(list) == { list[i] : i \in 1..Len(list) }

\* the slot of a string in the hash table of a set: str hashes are salted with the
\* seed of the process, so the order of the slots changes from process to process
\* (here: the order of Interned, or its reverse)
Slot(string, seed) ==
    LET index == CHOOSE i \in 1..Len(Interned) : Interned[i] = string
    IN IF seed % 2 = 1 THEN index ELSE Len(Interned) - index

\* list(set(...)): the elements in the order of their slots
RECURSIVE list_of_set(_, _)
list_of_set(elements, seed) ==
    IF elements = {} THEN << >>
    ELSE LET first == CHOOSE x \in elements :
                          \A y \in elements : Slot(x, seed) <= Slot(y, seed)
         IN << first >> \o list_of_set(elements \ { first }, seed)

\* _select_tools, lines 597-627
select_tools(parsed_input, archetype, seed) ==
    LET listed == Extend(tool_mappings, parsed_input.functions)
                      \o Lookup(archetype_tools, archetype)
        selected_tools == IF listed = << >>
                          THEN << "ScrapeWebsiteTool", "FileReadTool" >> ELSE listed
    IN list_of_set(Elements(selected_tools), seed)

\* _generate_specializations, lines 654-693
generate_specializations(parsed_input, archetype, seed) ==
    LET specializations ==
            Lookup(domain_specializations, parsed_input.domain)
                \o Extend(expertise_domains, parsed_input.expertise)
                \o Extend(function_specializations, parsed_input.functions)
        listed == list_of_set(Elements(specializations), seed)
    IN SubSeq(listed, 1, IF Len(listed) > 5 THEN 5 ELSE Len(listed))

\* create_agent_from_nlp, lines 202-249: the specification, with the parsed input
\* and the archetype standing for the fields that are templates filled from them
\* (name, role, goal, backstory, the LLM configuration, the metrics, the styles)
create_agent_from_nlp(user_input, seed) ==
    LET parsed_input == parse_agent_input(user_input)
        archetype == determine_archetype(parsed_input)
    IN [ parsed |-> parsed_input,
         archetype |-> archetype,
         tools |-> select_tools(parsed_input, archetype, seed),
         specializations |-> generate_specializations(parsed_input, archetype, seed) ]

\* POST /agents/create (api.py, lines 213-259) calls the expander; the call is kept
CreateAgentFromNlp(user_input) ==
    /\ Len(calls) < MaxCalls
    /\ calls' = Append(calls, [ call |-> "create_agent_from_nlp",
                                input |-> user_input,
                                spec |-> create_agent_from_nlp(user_input, hash_seed) ])
    /\ UNCHANGED << active_tasks, task_results, execution_logs, connected_clients,
                    agent_statuses, co, socket, sending, inbox, hash_seed >>

\* the server process is started again (start_api.py runs uvicorn with --reload):
\* the new interpreter draws a new hash seed, and the stores are empty again
Restart(seed) ==
    /\ seed # hash_seed
    /\ hash_seed' = seed
    /\ UNCHANGED << active_tasks, task_results, execution_logs, connected_clients,
                    agent_statuses, co, socket, sending, inbox, calls >>

ExpandInit ==
    /\ InitStores
    /\ hash_seed \in HashSeeds
    /\ calls = << >>

ExpandNext ==
    \/ \E user_input \in Texts : CreateAgentFromNlp(user_input)
    \/ \E seed \in HashSeeds : Restart(seed)

ExpandSpec == ExpandInit /\ [][ExpandNext]_vars

\* ------------------------------------------------------------------ task expansion
\* (create_task_from_nlp of intelligent_agent_creator.py and expand_user_input of
\* intelligent_orchestrator.py)

\* Bounds of the inputs of task expansion.
MaxPhrases == 3
MaxExpansions == 1

\* the words and phrases a task text is made of
Phrases ==
    { "research", "analyze", "create", "build", "plan", "strategy", "market", "process",
      "urgent", "important", "eventually", "low priority", "comprehensive" }

Requests == { text \in SUBSET Phrases : Cardinality(text) <= MaxPhrases }

\* the available_agents lists of a request
AvailableLists ==
    { << >>,
      << "execution_monitor" >>,
      << "execution_monitor", "research_intelligence_agent" >>,
      << "custom_agent", "orchestration_coordinator" >>,
      AgentNames }

\* _load_intent_patterns, lines 38-69: the keywords of each intent
intent_keywords ==
    << << "research", { "research", "analyze", "study", "investigate", "explore", "examine", "review" } >>,
       << "create", { "create", "build", "develop", "design", "make", "generate", "produce" } >>,
       << "optimize", { "optimize", "improve", "enhance", "refine", "streamline", "upgrade" } >>,
       << "monitor", { "monitor", "track", "watch", "observe", "check", "audit" } >>,
       << "automate", { "automate", "schedule", "batch", "recurring", "systematic" } >> >>

\* the indicators of each intent
intent_indicators ==
    << << "research", { "trends", "market", "competitors", "industry", "data", "information" } >>,
       << "create", { "plan", "strategy", "document", "report", "presentation", "content" } >>,
       << "optimize", { "process", "workflow", "performance", "efficiency", "system" } >>,
       << "monitor", { "performance", "metrics", "status", "health", "compliance" } >>,
       << "automate", { "process", "workflow", "task", "operation", "routine" } >> >>

\* the default_priority of each intent
default_priority ==
    << << "research", "medium" >>, << "create", "high" >>, << "optimize", "medium" >>,
       << "monitor", "low" >>, << "automate", "high" >> >>

\* the estimated_duration of each intent
estimated_duration ==
    << << "research", "2-4 hours" >>, << "create", "3-6 hours" >>,
       << "optimize", "4-8 hours" >>, << "monitor", "1-2 hours" >>,
       << "automate", "6-12 hours" >> >>

\* _load_domain_knowledge, lines 73-94: the agents of each domain
domain_agents ==
    << << "business", << "research_intelligence_agent", "data_processing_specialist", "quality_assurance_specialist" >> >>,
       << "technology", << "data_processing_specialist", "execution_monitor", "quality_assurance_specialist" >> >>,
       << "marketing", << "research_intelligence_agent", "orchestration_coordinator", "quality_assurance_specialist" >> >>,
       << "operations", << "task_allocation_manager", "execution_monitor", "quality_assurance_specialist" >> >> >>

\* _detect_domain, lines 222-227
detect_domain_keywords ==
    << << "business", { "business", "market", "revenue", "profit", "sales", "customer", "competitor" } >>,
       << "technology", { "tech", "software", "system", "platform", "api", "database", "cloud" } >>,
       << "marketing", { "marketing", "brand", "campaign", "content", "social", "advertising" } >>,
       << "operations", { "process", "workflow", "operation", "efficiency", "quality", "resource" } >> >>

\* _determine_category, lines 299-306
category_mapping ==
    << << << "research", "business" >>, "market_research" >>,
       << << "research", "technology" >>, "technical_analysis" >>,
       << << "create", "marketing" >>, "content_creation" >>,
       << << "create", "business" >>, "strategic_planning" >>,
       << << "optimize", "operations" >>, "process_optimization" >>,
       << << "monitor", "technology" >>, "system_monitoring" >> >>

\* _determine_priority, lines 312-316
urgency_keywords ==
    << << "urgent", { "urgent", "asap", "immediately", "critical", "emergency" } >>,
       << "high", { "important", "priority", "soon", "quickly", "fast" } >>,
       << "low", { "when possible", "eventually", "low priority", "background" } >> >>

\* _select_agents, lines 348-354
intent_agent_mapping ==
    << << "research", << "research_intelligence_agent" >> >>,
       << "create", << "data_processing_specialist" >> >>,
       << "optimize", << "execution_monitor" >> >>,
       << "monitor", << "execution_monitor" >> >>,
       << "automate", << "task_allocation_manager" >> >> >>

\* _extract_action_words, lines 747-751
action_patterns ==
    << "analyze", "create", "develop", "build", "research", "investigate", "optimize",
       "improve", "monitor", "track", "validate", "verify", "generate", "produce",
       "design", "implement", "execute", "deliver" >>

\* _extract_subject_matter, line 758
subjects ==
    << "market", "business", "technology", "content", "process", "data", "system" >>

\* _extract_scope, lines 768-772
scope_indicators ==
    << << "comprehensive", { "comprehensive", "complete", "full", "detailed", "thorough" } >>,
       << "focused", { "specific", "targeted", "focused", "particular" } >>,
       << "broad", { "broad", "wide", "extensive", "general", "overall" } >> >>

\* _extract_urgency, lines 782-786
urgency_indicators ==
    << << "urgent", { "urgent", "asap", "immediately", "critical", "emergency" } >>,
       << "high", { "important", "priority", "soon", "quickly" } >>,
       << "low", { "when possible", "eventually", "background" } >> >>

\* _extract_deliverable_type, lines 796-802
deliverable_types ==
    << << "report", { "report", "analysis", "summary", "findings" } >>,
       << "plan", { "plan", "strategy", "roadmap", "framework" } >>,
       << "content", { "content", "material", "copy", "text" } >>,
       << "data", { "data", "dataset", "metrics", "statistics" } >>,
       << "documentation", { "documentation", "guide", "manual", "specs" } >> >>

\* _extract_complexity_indicators, lines 812-815
complexity_words ==
    << "complex", "comprehensive", "detailed", "thorough", "extensive", "multi-faceted",
       "in-depth", "sophisticated", "advanced" >>

\* _select_best_agent, lines 888-896
agent_preferences ==
    << << "analyze", "research_intelligence_agent" >>,
       << "research", "research_intelligence_agent" >>,
       << "create", "orchestration_coordinator" >>,
       << "develop", "orchestration_coordinator" >>,
       << "optimize", "data_processing_specialist" >>,
       << "monitor", "execution_monitor" >>,
       << "validate", "quality_assurance_specialist" >> >>

\* _select_task_tools, lines 937-942
action_tools ==
    << << "research", << "ScrapeWebsiteTool", "ArxivPaperTool" >> >>,
       << "analyze", << "FileReadTool", "ScrapeElementFromWebsiteTool" >> >>,
       << "create", << "FileReadTool" >> >>,
       << "monitor", << "FileReadTool" >> >> >>

\* _select_task_tools, lines 949-953
subject_tools ==
    << << "market", << "ScrapeWebsiteTool", "ArxivPaperTool" >> >>,
       << "data", << "ScrapeElementFromWebsiteTool", "FileReadTool" >> >>,
       << "content", << "FileReadTool", "ScrapeWebsiteTool" >> >> >>

\* [word for word in list if word in text]
RECURSIVE Found(_, _)
Found(list, text) ==
    IF list = << >> THEN << >>
    ELSE (IF Occurs(Head(list), text) THEN << Head(list) >> ELSE << >>)
         \o Found(Tail(list), text)

\* the first element of a list, or the value returned after the loop
FirstOr(list, default) == IF list = << >> THEN default ELSE Head(list)

\* table.get(key, default) of a table of single values
RECURSIVE Get(_, _, _)
Get(table, key, default) ==
    IF table = << >> THEN default
    ELSE IF Head(table)[1] = key THEN Head(table)[2] ELSE Get(Tail(table), key, default)

\* sum(1 for keyword in keywords if keyword in text)
Count(keywords, text) == Cardinality({ keyword \in keywords : Occurs(keyword, text) })

\* _extract_action_words, lines 745-753
extract_action_words(text) == Found(action_patterns, text)

\* _extract_subject_matter, lines 755-764
extract_subject_matter(text) == FirstOr(Found(subjects, text), "general")

\* _extract_scope, lines 766-778
extract_scope(text) == FirstOr(Matching(scope_indicators, text), "standard")

\* _extract_urgency, lines 780-792
extract_urgency(text) == FirstOr(Matching(urgency_indicators, text), "medium")

\* _extract_deliverable_type, lines 794-808
extract_deliverable_type(text) == FirstOr(Matching(deliverable_types, text), "general")

\* _extract_complexity_indicators, lines 810-817
extract_complexity_indicators(text) == Found(complexity_words, text)

\* _parse_task_input, lines 321-336
parse_task_input(text) ==
    [ action_words |-> extract_action_words(text),
      subject_matter |-> extract_subject_matter(text),
      scope |-> extract_scope(text),
      urgency |-> extract_urgency(text),
      deliverable_type |-> extract_deliverable_type(text),
      complexity_indicators |-> extract_complexity_indicators(text) ]

\* no agent: the loop of _select_best_agent has returned nothing
NoAgent == ""

\* _select_best_agent that returns the preferred agent without asking whether it is
\* available
RECURSIVE PreferredAgentUnchecked(_, _)
PreferredAgentUnchecked(action_words, available_agents) ==
    IF action_words = << >> THEN NoAgent
    ELSE LET preferred_agent == Get(agent_preferences, Head(action_words), NoAgent)
         IN IF preferred_agent # NoAgent
            THEN preferred_agent
            ELSE PreferredAgentUnchecked(Tail(action_words), available_agents)

\* _select_best_agent, lines 898-903: the preferred agent of the first action word
\* whose preferred agent is available
RECURSIVE PreferredAgent(_, _)
PreferredAgent(action_words, available_agents) ==
    IF action_words = << >> THEN NoAgent
    ELSE LET preferred_agent == Get(agent_preferences, Head(action_words), NoAgent)
         IN IF preferred_agent # NoAgent /\ InList(available_agents, preferred_agent)
            THEN preferred_agent
            ELSE PreferredAgent(Tail(action_words), available_agents)

\* _select_best_agent, lines 882-906
select_best_agent(parsed_input, available_agents) ==
    LET preferred_agent == PreferredAgent(parsed_input.action_words, available_agents)
    IN IF preferred_agent # NoAgent THEN preferred_agent
       ELSE IF InList(available_agents, "orchestration_coordinator")
            THEN "orchestration_coordinator"
            ELSE IF available_agents # << >> THEN available_agents[1]
                 ELSE "orchestration_coordinator"

\* _select_task_tools, lines 928-962
select_task_tools(parsed_input, seed) ==
    LET listed == Extend(action_tools, parsed_input.action_words)
                      \o Lookup(subject_tools, parsed_input.subject_matter)
        tools == IF listed = << >> THEN << "FileReadTool", "ScrapeWebsiteTool" >> ELSE listed
    IN list_of_set(Elements(tools), seed)

\* _determine_task_priority that looks at the complexity before the urgency
determine_task_priority_by_complexity(parsed_input) ==
    IF parsed_input.urgency = "high" \/ Len(parsed_input.complexity_indicators) > 0
    THEN "high"
    ELSE IF parsed_input.urgency = "urgent" THEN "urgent"
    ELSE IF parsed_input.urgency = "low" THEN "low"
    ELSE "medium"

\* _determine_task_priority, lines 964-976
determine_task_priority(parsed_input) ==
    IF parsed_input.urgency = "urgent" THEN "urgent"
    ELSE IF parsed_input.urgency = "high" \/ Len(parsed_input.complexity_indicators) > 2
         THEN "high"
    ELSE IF parsed_input.urgency = "low" THEN "low"
    ELSE "medium"

\* _determine_task_complexity, lines 978-996
determine_task_complexity(parsed_input) ==
    LET complexity_score ==
            Len(parsed_input.complexity_indicators) + Len(parsed_input.action_words)
            + (IF parsed_input.scope = "comprehensive" THEN 2
               ELSE IF parsed_input.scope = "broad" THEN 1 ELSE 0)
    IN IF complexity_score > 5 THEN "high"
       ELSE IF complexity_score > 3 THEN "medium"
       ELSE "low"

\* create_task_from_nlp, lines 251-301: the specification, with the parsed input
\* standing for the fields that are templates filled from it (name, description,
\* expected output, context, success criteria, deliverables, dependencies)
create_task_from_nlp(user_input, available_agents, seed) ==
    LET parsed_input == parse_task_input(user_input)
    IN [ parsed |-> parsed_input,
         agent |-> select_best_agent(parsed_input, available_agents),
         tools |-> select_task_tools(parsed_input, seed),
         priority |-> determine_task_priority(parsed_input),
         complexity |-> determine_task_complexity(parsed_input) ]

\* _detect_intent, lines 198-218
detect_intent(input_text) ==
    LET intent_scores ==
            [ i \in 1..Len(intent_keywords) |->
                3 * Count(intent_keywords[i][2], input_text)
                + 2 * Count(intent_indicators[i][2], input_text) ]
        best == ArgMax(intent_scores)
    IN IF intent_scores[best] > 0 THEN intent_keywords[best][1] ELSE "research"

\* _detect_domain, lines 220-234
detect_domain(input_text) ==
    LET domain_scores ==
            [ i \in 1..Len(detect_domain_keywords) |->
                Count(detect_domain_keywords[i][2], input_text) ]
        best == ArgMax(domain_scores)
    IN IF domain_scores[best] > 0 THEN detect_domain_keywords[best][1] ELSE "business"

\* _determine_category, lines 296-308
determine_category(intent, domain) ==
    Get(category_mapping, << intent, domain >>, "general_analysis")

\* _determine_priority, lines 310-323
determine_priority(input_text, intent) ==
    FirstOr(Matching(urgency_keywords, input_text), Get(default_priority, intent, "medium"))

\* _estimate_duration, lines 325-337, for a text that names no company, industry or
\* time frame (no phrase of the vocabulary does: _extract_entities finds nothing)
estimate_duration(intent) == Get(estimated_duration, intent, "2-4 hours")

\* _select_agents, lines 339-363, for such a text
select_agents(intent, domain, seed) ==
    LET base_agents == << "orchestration_coordinator" >>
                           \o Lookup(domain_agents, domain)
                           \o Lookup(intent_agent_mapping, intent)
    IN list_of_set(Elements(base_agents), seed)

\* expand_user_input, lines 140-189: the expansion, with intent and domain standing
\* for the fields that are templates filled from them (description, subtasks, outputs,
\* success criteria, context requirements)
expand_user_input(user_input, seed) ==
    LET intent == detect_intent(user_input)
        domain == detect_domain(user_input)
    IN [ intent |-> intent,
         domain |-> domain,
         category |-> determine_category(intent, domain),
         priority |-> determine_priority(user_input, intent),
         estimated_duration |-> estimate_duration(intent),
         required_agents |-> select_agents(intent, domain, seed) ]

\* a call of create_task_from_nlp (POST /tasks/create, api.py lines 261-307, passes
\* the list of the request, or the registered names if that is empty); the call is kept
CreateTaskFromNlp(user_input, available_agents) ==
    /\ Len(calls) < MaxCalls
    /\ calls' = Append(calls, [ call |-> "create_task_from_nlp",
                                input |-> user_input,
                                available_agents |-> available_agents,
                                spec |-> create_task_from_nlp(user_input, available_agents,
                                                              hash_seed) ])
    /\ UNCHANGED << active_tasks, task_results, execution_logs, connected_clients,
                    agent_statuses, co, socket, sending, inbox, hash_seed >>

\* a call of intelligent_orchestrator.expand_user_input; the call is kept
ExpandUserInput(user_input) ==
    /\ Len(calls) < MaxCalls
    /\ calls' = Append(calls, [ call |-> "expand_user_input",
                                input |-> user_input,
                                spec |-> expand_user_input(user_input, hash_seed) ])
    /\ UNCHANGED << active_tasks, task_results, execution_logs, connected_clients,
                    agent_statuses, co, socket, sending, inbox, hash_seed >>

\* One expansion of a request text by each of the three expanders.
TaskExpandNext ==
    \/ \E user_input \in Requests :
           Len(calls) < MaxExpansions /\ CreateAgentFromNlp(user_input)
    \/ \E user_input \in Requests, available_agents \in AvailableLists :
           Len(calls) < MaxExpansions /\ CreateTaskFromNlp(user_input, available_agents)
    \/ \E user_input \in Requests :
           Len(calls) < MaxExpansions /\ ExpandUserInput(user_input)

TaskExpandSpec == ExpandInit /\ [][TaskExpandNext]_vars

\* ------------------------------------------------------------------ properties

Terminal == { "completed", "failed" }

Range(list) == { list[i] : i \in 1..Len(list) }

Last(list) == list[Len(list)]

StatusOf(task_id) == active_tasks[task_id].status

\* the moves of the status that the lifecycle allows
StatusMoves == { << "created", "running" >>, << "running", "completed" >>,
                 << "running", "failed" >> }

\* C1: the status of a task only moves created -> running -> completed or
\* created -> running -> failed; a new task starts as created, no step skips
\* running, and a completed or failed status never changes again.
C1_StatusStateMachine ==
    [][ /\ DOMAIN active_tasks \subseteq DOMAIN active_tasks'
        /\ \A t \in DOMAIN active_tasks' :
             IF t \in DOMAIN active_tasks
             THEN \/ active_tasks'[t].status = StatusOf(t)
                  \/ << StatusOf(t), active_tasks'[t].status >> \in StatusMoves
             ELSE active_tasks'[t].status = "created" ]_vars

\* C1, its case: both final statuses have been reached from running
C1_Witness ==
    /\ \E t \in DOMAIN active_tasks : StatusOf(t) = "completed" /\ co[Main(t)].wait = "done"
    /\ \E t \in DOMAIN active_tasks : StatusOf(t) = "failed" /\ co[Main(t)].wait = "done"

\* C2: in every state and for every task, progress = 100 if and only if the
\* status is completed.
C2_ProgressHundredIffCompleted ==
    \A t \in DOMAIN active_tasks :
        (active_tasks[t].progress = 100) <=> (StatusOf(t) = "completed")

\* C3: no event is appended to the log of a task whose status is completed or
\* failed: from then on the length of execution_logs[task_id] is constant.
C3_NoAppendAfterTerminal ==
    [][ \A t \in DOMAIN active_tasks :
          StatusOf(t) \in Terminal => Len(execution_logs'[t]) = Len(execution_logs[t]) ]_vars

\* C4: a task whose executor call raised is failed with progress 0, and stays so.
C4_FailedProgressZero ==
    \A t \in DOMAIN active_tasks :
        StatusOf(t) = "failed" => active_tasks[t].progress = 0

\* C5: when the executor call of a task returned a result R, the task ends
\* completed, the snapshot get_task returns has result = the text of R, and the
\* last event of its log is the completed-level event system/task_completed.
C5_CompletedSnapshot ==
    \A t \in DOMAIN active_tasks :
        LET main == co[Main(t)]
        IN /\ (main.outcome.kind = "ok" /\ main.wait = "done") => StatusOf(t) = "completed"
           /\ StatusOf(t) = "completed" =>
                /\ main.outcome.kind = "ok"
                /\ Snapshot(t).status = "completed"
                /\ Snapshot(t).result = main.outcome.text
                /\ Last(execution_logs[t]).agent = "system"
                /\ Last(execution_logs[t]).action = "task_completed"
                /\ Last(execution_logs[t]).status = "completed"

\* C5, its case: a task is through, its executor returned after the simulation had
\* logged two activities
C5_Witness ==
    \E t \in DOMAIN active_tasks :
        /\ co[Main(t)].wait = "done"
        /\ co[Main(t)].outcome.kind = "ok"
        /\ \E i \in 1..Len(execution_logs[t]) : execution_logs[t][i].action = "source_analysis"

\* the error field of the snapshot: TaskResponse (lines 66-75) declares none
SnapshotError(task_id) == None

\* C6: for a task whose status is terminal exactly one of result and error is
\* populated, result only when completed and error only when failed; a task that
\* is not terminal shows neither.
C6_ResultXorError ==
    \A t \in DOMAIN active_tasks :
        LET result == Snapshot(t).result
            error == SnapshotError(t)
        IN /\ StatusOf(t) \in Terminal => ((result # None) # (error # None))
           /\ result # None => StatusOf(t) = "completed"
           /\ error # None => StatusOf(t) = "failed"

\* C7: completed_at is unset while the status is created or running and is set
\* once the status is terminal, completed or failed.
C7_CompletedAtOnTerminal ==
    \A t \in DOMAIN active_tasks :
        (active_tasks[t].completed_at # NoTime) <=> (StatusOf(t) \in Terminal)

\* C8: a submission with the empty description is rejected before any state is
\* created: no task of the store was submitted with "".
C8_EmptyDescriptionRejected ==
    \A t \in Tasks :
        (\/ t \in DOMAIN active_tasks
         \/ t \in DOMAIN execution_logs
         \/ co[Req(t)].wait # "none"
         \/ co[Main(t)].wait # "none") => co[Req(t)].arg # ""

\* a coroutine is suspended in a send to an observer whose send never completes
Blocked(k) == co[k].wait = "send" /\ socket[Head(co[k].todo)] = "stuck"

\* C9: a slow observer blocks neither the broadcaster nor the engine: no
\* coroutine (create_task, execute_crew_task, the simulation) is ever held by a
\* send that never completes, with or without other observers still to be served.
C9_SlowObserverBlocksNobody == \A k \in CoIds : ~Blocked(k)

\* the broadcast_message call of coroutine k ends in this step by returning
Returns(k) ==
    /\ co[k].wait = "send"
    /\ Len(co[k].todo) = 1
    /\ co'[k] # co[k]
    /\ co'[k].wait # "cancelled"

\* the broadcast_message call of coroutine k ends in this step by cancellation
Cancelled(k) == co[k].wait = "send" /\ co'[k].wait = "cancelled"

\* the observers whose send has failed, resp. succeeded, in the call of k, its
\* pending last send included
FailedIn(k) ==
    Range(co[k].disc) \cup
        { c \in { Head(co[k].todo) } : Len(co[k].todo) = 1 /\ socket[c] = "closed" }

DeliveredIn(k) ==
    co[k].sent \cup
        { c \in { Head(co[k].todo) } : Len(co[k].todo) = 1 /\ socket[c] = "open" }

RECURSIVE Received(_, _)
Received(box, task_id) ==
    IF box = << >> THEN << >>
    ELSE IF Head(box)[1] = task_id /\ Head(box)[2] = "execution_log"
         THEN << Head(box)[3] >> \o Received(Tail(box), task_id)
         ELSE Received(Tail(box), task_id)

\* C11: every observer receives the execution_log messages of a task in the order
\* in which log_execution appended their events to the task's log, whatever the
\* interleaving of the execution coroutine, the simulation and their broadcasts.
C11_DeliveredInLogOrder ==
    \A c \in Clients, t \in Tasks :
        LET got == Received(inbox[c], t)
        IN \A i, j \in 1..Len(got) : i < j => got[i] < got[j]

\* the levels of a terminal event
TerminalLevels == { "completed", "error" }

\* the log of some task has a running-level event that names the worker and, after
\* it, no terminal-level event (the terminal events of a task name "system": the
\* terminal event of the task that named the worker is the one that counts)
InRun(agent) ==
    \E t \in DOMAIN execution_logs :
        \E i \in 1..Len(execution_logs[t]) :
            /\ execution_logs[t][i].agent = agent
            /\ execution_logs[t][i].status = "running"
            /\ \A j \in (i + 1)..Len(execution_logs[t]) :
                   execution_logs[t][j].status \notin TerminalLevels

\* C12: in every state a worker is busy exactly between a running-level event that
\* names it and the next terminal-level event, and ready in all other states; no
\* event or terminal transition of another task changes that.
C12_BusyBetweenEvents ==
    \A a \in Agents : (agent_statuses[a].status = "busy") <=> InRun(a)

\* the sum of total_tasks_completed over the first n workers
RECURSIVE CompletedCount(_)
CompletedCount(n) ==
    IF n = 0 THEN 0
    ELSE agent_statuses[AgentNames[n]].total_tasks_completed + CompletedCount(n - 1)

\* C13: total_tasks_completed is incremented once per task that reaches completed
\* and never otherwise, so the sum over all workers is the number of tasks that
\* have completed.
C13_CompletedCountReflectsTasks ==
    CompletedCount(Len(AgentNames))
        = Cardinality({ t \in DOMAIN active_tasks : StatusOf(t) = "completed" })

\* execute_crew_task has ended for every task of the store: each is completed or
\* failed, and no task is created or running
AllEnded ==
    /\ DOMAIN active_tasks # {}
    /\ \A t \in DOMAIN active_tasks :
          StatusOf(t) \in Terminal /\ co[Main(t)].wait = "done"

\* the workers the events of a task name
Referenced(task_id) ==
    { execution_logs[task_id][i].agent : i \in 1..Len(execution_logs[task_id]) }
        \cap Agents

\* C14: once a task is terminal and no other task is running, every worker
\* referenced during its run is ready, and stays ready until a task is submitted.
C14_ReadyAfterTerminal ==
    AllEnded =>
        \A t \in DOMAIN active_tasks :
            \A a \in Referenced(t) : agent_statuses[a].status = "ready"

\* C15: get_task, get_task_logs, get_all_tasks and get_agents are read-only: a step
\* in which no coroutine of the engine moves leaves the Task Store (every field of
\* every record), the results, the event logs and the Worker Registry unchanged.
C15_QueriesReadOnly ==
    [][ co' = co =>
          UNCHANGED << active_tasks, task_results, execution_logs, agent_statuses >> ]_vars

\* the mutable fields of a TaskRecord
Mutable(task) ==
    << task.status, task.current_agent, task.current_step, task.progress, task.result >>

\* C16: single writer per task: a step that changes the status, the current agent,
\* the current step, the progress or the result of a stored task is a step of
\* the execution coroutine of that task: not of the simulation, of a request
\* handler or of a coroutine of another task.
C16_SingleWriter ==
    [][ \A t \in DOMAIN active_tasks :
          Mutable(active_tasks'[t]) # Mutable(active_tasks[t]) =>
              /\ co[Main(t)].wait \in { "ready", "sleep", "send", "exec" }
              /\ co'[Main(t)] # co[Main(t)] ]_vars

\* C17: once the executor call of a task has returned, with a result or with an
\* error, the simulation of the task is cancelled: it makes no further step (it
\* appends no event and changes no worker status).
C17_SimulationStopsAtReturn ==
    [][ \A t \in Tasks :
          co[Main(t)].outcome # NoOutcome => co'[Sim(t)] = co[Sim(t)] ]_vars

\* C18: under fair scheduling and with an executor call that ends, every task of
\* the store eventually is completed or failed, whatever the observers do.
C18_EveryTaskEnds ==
    \A t \in Tasks :
        (t \in DOMAIN active_tasks)
            ~> (t \in DOMAIN active_tasks /\ StatusOf(t) \in Terminal)

\* C19: create_task stores a record with a fresh id in status created, schedules
\* the execution as its last statement and has completed before execute_crew_task
\* of that task runs (so before the executor is invoked); none of its steps changes
\* the record or the log of another task.
C19_SubmitIsIndependent ==
    [][ \A t \in Tasks :
          /\ (t \notin DOMAIN active_tasks /\ t \in DOMAIN active_tasks') =>
                /\ t \notin DOMAIN execution_logs
                /\ co[Req(t)].wait = "none" /\ co'[Req(t)].wait # "none"
                /\ active_tasks'[t].status = "created"
          /\ co'[Req(t)] # co[Req(t)] =>
                \A u \in DOMAIN active_tasks \ { t } :
                    /\ active_tasks'[u] = active_tasks[u]
                    /\ execution_logs'[u] = execution_logs[u]
          /\ (co[Req(t)].wait # "done" /\ co'[Req(t)].wait = "done") =>
                /\ co[Main(t)].wait = "none" /\ co'[Main(t)].wait = "ready"
                /\ active_tasks'[t].status = "created"
          /\ co'[Main(t)].wait # "none" => co'[Req(t)].wait = "done" ]_vars

\* C19, its case: the submission of a second task has completed while the executor
\* call of the first task is in progress
C19_Witness ==
    /\ DOMAIN active_tasks = { 1, 2 }
    /\ co[Main(1)].wait = "exec" /\ StatusOf(1) = "running"
    /\ co[Req(2)].wait = "done" /\ StatusOf(2) = "created"

\* C20: expansion is deterministic: two calls of create_agent_from_nlp with the
\* same input text yield field-for-field identical specifications, the order and
\* the membership of the tool list and of the specializations list (cut to 5)
\* included.
C20_ExpansionDeterministic ==
    \A i, j \in 1..Len(calls) :
        calls[i].input = calls[j].input => calls[i].spec = calls[j].spec

\* the score of the i-th intent of a table of primary keywords and a table of
\* secondary indicators (none: the empty table): 3 per primary keyword found, 2 per
\* secondary indicator found
IntentScore(primary, secondary, i, text) ==
    3 * Cardinality({ word \in primary[i][2] : Occurs(word, text) })
    + (IF secondary = << >> THEN 0
       ELSE 2 * Cardinality({ word \in secondary[i][2] : Occurs(word, text) }))

\* intent is the intent of the highest score, the first declared among equals, or the
\* fallback when every score is 0
IsArgMaxIntent(intent, primary, secondary, text, fallback) ==
    IF \A i \in 1..Len(primary) : IntentScore(primary, secondary, i, text) = 0
    THEN intent = fallback
    ELSE \E i \in 1..Len(primary) :
             /\ intent = primary[i][1]
             /\ \A j \in 1..Len(primary) :
                    /\ IntentScore(primary, secondary, j, text)
                           <= IntentScore(primary, secondary, i, text)
                    /\ j < i => IntentScore(primary, secondary, j, text)
                                    < IntentScore(primary, secondary, i, text)

\* C21: the intent an expander selects for a text is the argmax of the score 3 x
\* (primary keywords found) + 2 x (secondary indicators found), ties going to the
\* intent declared first, with the fallback research in _detect_intent (task
\* expansion) and general in _extract_intent (agent expansion) when every score is 0.
C21_IntentIsArgMax ==
    \A i \in 1..Len(calls) :
        /\ calls[i].call = "expand_user_input" =>
               IsArgMaxIntent(calls[i].spec.intent, intent_keywords, intent_indicators,
                              calls[i].input, "research")
        /\ calls[i].call = "create_agent_from_nlp" =>
               IsArgMaxIntent(calls[i].spec.parsed.intent, intent_patterns, << >>,
                              calls[i].input, "general")

\* the score of the i-th domain of a table: the number of its keywords found
DomainScore(keywords, i, text) ==
    Cardinality({ word \in keywords[i][2] : Occurs(word, text) })

\* domain is the domain of the highest score, the first declared among equals, and
\* the first declared domain when every score is 0
IsArgMaxDomain(domain, keywords, text) ==
    \E i \in 1..Len(keywords) :
        /\ domain = keywords[i][1]
        /\ \A j \in 1..Len(keywords) :
               /\ DomainScore(keywords, j, text) <= DomainScore(keywords, i, text)
               /\ j < i => DomainScore(keywords, j, text) < DomainScore(keywords, i, text)

\* C22: the domain an expander selects for a text is the domain with the highest
\* keyword-match score, ties going to the domain declared first, and the first
\* declared domain (business) when every domain scores 0, in _extract_domain of the
\* agent creator and in _detect_domain of the orchestrator.
C22_DomainIsArgMax ==
    \A i \in 1..Len(calls) :
        /\ calls[i].call = "expand_user_input" =>
               IsArgMaxDomain(calls[i].spec.domain, detect_domain_keywords, calls[i].input)
        /\ calls[i].call = "create_agent_from_nlp" =>
               IsArgMaxDomain(calls[i].spec.parsed.domain, domain_keywords, calls[i].input)

\* the urgency keywords
UrgencyWords == { "urgent", "asap", "immediately", "critical", "emergency" }

Urgent(text) == \E word \in UrgencyWords : Occurs(word, text)

\* the text names a complexity keyword or a scope keyword
NamesComplexityOrScope(text) ==
    \/ \E i \in 1..Len(complexity_words) : Occurs(complexity_words[i], text)
    \/ \E i \in 1..Len(scope_indicators) :
           \E word \in scope_indicators[i][2] : Occurs(word, text)

\* the action words the text names
ActionWordsIn(text) ==
    { word \in Elements(action_patterns) : Occurs(word, text) }

\* C23: urgency dominates priority: task expansion of a text that contains an
\* urgency keyword (urgent, asap, immediately, critical, emergency) yields the
\* priority urgent whatever other urgency, complexity or intent keywords the text
\* contains, in create_task_from_nlp and in expand_user_input; and for a text with an
\* urgency keyword, one action word and no complexity or scope keyword the complexity
\* is low.
C23_UrgencyDominates ==
    \A i \in 1..Len(calls) :
        /\ (calls[i].call \in { "create_task_from_nlp", "expand_user_input" }
               /\ Urgent(calls[i].input))
           => calls[i].spec.priority = "urgent"
        /\ (calls[i].call = "create_task_from_nlp"
               /\ Urgent(calls[i].input)
               /\ Cardinality(ActionWordsIn(calls[i].input)) = 1
               /\ ~ NamesComplexityOrScope(calls[i].input))
           => calls[i].spec.complexity = "low"

\* a task text with the keyword urgent, a keyword of another urgency level and a
\* complexity keyword has been expanded
C23_Witness ==
    \E i \in 1..Len(calls) :
        /\ calls[i].call = "create_task_from_nlp"
        /\ calls[i].input = { "urgent", "important", "comprehensive" }
        /\ calls[i].spec.priority = "urgent"

\* C24: for every task, progress never decreases between two successive states in
\* both of which the status is running, under every interleaving of the execution
\* coroutine and the simulated-activity coroutine.
C24_ProgressMonotoneWhileRunning ==
    [][\A t \in DOMAIN active_tasks :
           (active_tasks[t].status = "running" /\ active_tasks'[t].status = "running")
           => active_tasks'[t].progress >= active_tasks[t].progress]_vars

\* a running task whose log the execution coroutine and the simulation have both
\* written to, the simulation last, while the executor runs
C24_Witness ==
    \E t \in DOMAIN active_tasks :
        /\ active_tasks[t].status = "running"
        /\ co[Main(t)].wait = "exec"
        /\ Len(execution_logs[t]) = 9
        /\ execution_logs[t][9].action = "source_analysis"
        /\ active_tasks[t].progress = 45

\* C25: while a task is running its progress equals min(95, floor(100 * n / 20)), n
\* being the number of events in the task's log, so it never exceeds 95 before a
\* terminal event; and progress is an integer in 0..100 in every reachable state.
C25_ProgressFormula ==
    \A t \in DOMAIN active_tasks :
        /\ active_tasks[t].progress \in 0..100
        /\ active_tasks[t].status = "running" =>
               active_tasks[t].progress =
                   (IF (100 * Len(execution_logs[t])) \div 20 > 95 THEN 95
                    ELSE (100 * Len(execution_logs[t])) \div 20)

\* a running task at the highest progress a running task has: all ten simulated
\* activities and both final steps are in its log
C25_Witness ==
    \E t \in DOMAIN active_tasks :
        /\ active_tasks[t].status = "running"
        /\ Len(execution_logs[t]) = 19
        /\ active_tasks[t].progress = 95

\* no coroutine of the task is suspended: each has ended, was cancelled or never ran
Quiet(task_id) ==
    \A kind \in Kinds : co[<< task_id, kind >>].wait \in { "none", "done", "cancelled" }

\* the places in the task's log of the events the observer has received
Got(client, task_id) ==
    LET got == Received(inbox[client], task_id)
    IN { got[i] : i \in 1..Len(got) }

\* C26: every event log_execution appends to a task's log is fanned out to every
\* observer that is subscribed at that time and whose send does not fail, also when
\* the simulation is cancelled while its broadcast is in progress: when the task's
\* coroutines are through, an observer that is still subscribed and connected and
\* has received one event of the task has received every later event of its log.
C26_EveryEventFannedOut ==
    \A t \in DOMAIN execution_logs :
        Quiet(t) =>
            \A c \in Clients :
                (socket[c] = "open" /\ InList(connected_clients, c)) =>
                    \A i, j \in 1..Len(execution_logs[t]) :
                        (i < j /\ i \in Got(c, t)) => j \in Got(c, t)

\* C27: the event log of every task is append-only: in every step the new value of
\* execution_logs[task_id] has the old value as a prefix; no operation (log_execution,
\* get_task, get_task_logs, get_all_tasks, a terminal transition) removes, reorders
\* or rewrites an appended event.
C27_LogAppendOnly ==
    [][\A t \in DOMAIN execution_logs :
           /\ t \in DOMAIN execution_logs'
           /\ Len(execution_logs'[t]) >= Len(execution_logs[t])
           /\ SubSeq(execution_logs'[t], 1, Len(execution_logs[t])) = execution_logs[t]]_vars

\* a task is terminal with more than five events in its log, and get_all_tasks has
\* left the last five of them in its record
C27_Witness ==
    \E t \in DOMAIN active_tasks :
        /\ active_tasks[t].status \in { "completed", "failed" }
        /\ Len(execution_logs[t]) > 5
        /\ active_tasks[t].execution_log = LastLogs(execution_logs[t])

\* the pre-execution sequence, led by the event of entering running
PreExecution ==
    << << "system", "task_started" >>,
       << "system", "crew_initialization" >>,
       << "orchestration_coordinator", "strategy_analysis" >>,
       << "orchestration_coordinator", "agent_selection" >>,
       << "task_allocation_manager", "resource_allocation" >>,
       << "system", "crew_execution" >> >>

IsEvent(entry, event) == entry.agent = event[1] /\ entry.action = event[2]

\* the events of the simulated activities
Simulated(entry) ==
    \E i \in 1..Len(Activities) : IsEvent(entry, Activities[i])

\* the task has left the state it was created in
Entered(task_id) == active_tasks[task_id].status # "created"

\* the executor has been invoked for the task (the simulation is started in the
\* same step)
Invoked(task_id) == co[Sim(task_id)].wait # "none"

\* C28 as stated: for every task the first event appended on entering running is
\* system/task_started, and it is followed in this order by system/crew_initialization,
\* orchestration_coordinator/strategy_analysis, orchestration_coordinator/agent_selection,
\* task_allocation_manager/resource_allocation, system/crew_execution: the events
\* after the task_created event are these six, as far as the log goes, and all six
\* are in the log before the executor is invoked and before any simulated-activity
\* event of the task.
C28_PreExecutionSequence ==
    \A t \in DOMAIN active_tasks :
        Entered(t) =>
            LET log == execution_logs[t]
            IN /\ Len(log) >= 2
               /\ \A i \in 1..Len(PreExecution) :
                      Len(log) >= 1 + i => IsEvent(log[1 + i], PreExecution[i])
               /\ Invoked(t) => Len(log) >= 1 + Len(PreExecution)
               /\ \A j \in 1..Len(log) :
                      Simulated(log[j]) => j > 1 + Len(PreExecution)

\* C28, amended: the first event appended on entering running is system/task_started;
\* the events that follow it are the fixed pre-execution sequence in its order, unless
\* the construction of the crew raises, and then system/error follows
\* system/crew_initialization and is the last event of the failed task; all six events
\* are in the log before the executor is invoked and before any simulated-activity
\* event of the task.
C28_PreExecutionUnlessCrewFails ==
    \A t \in DOMAIN active_tasks :
        Entered(t) =>
            LET log == execution_logs[t]
                crew_failed == /\ active_tasks[t].status = "failed"
                               /\ Len(log) = 4
                               /\ IsEvent(log[4], << "system", "error" >>)
                               /\ ~ Invoked(t)
            IN /\ Len(log) >= 2
               /\ IsEvent(log[2], PreExecution[1])
               /\ \A i \in 1..Len(PreExecution) :
                      Len(log) >= 1 + i
                          => \/ IsEvent(log[1 + i], PreExecution[i])
                             \/ i = 3 /\ crew_failed
               /\ Invoked(t) =>
                      /\ Len(log) >= 1 + Len(PreExecution)
                      /\ \A i \in 1..Len(PreExecution) : IsEvent(log[1 + i], PreExecution[i])
               /\ \A j \in 1..Len(log) :
                      Simulated(log[j]) =>
                          /\ j > 1 + Len(PreExecution)
                          /\ \A i \in 1..Len(PreExecution) :
                                 IsEvent(log[1 + i], PreExecution[i])

\* the executor of a task runs and the first simulated activity is in its log, after
\* the six events
C28_Witness ==
    \E t \in DOMAIN active_tasks :
        /\ co[Main(t)].wait = "exec"
        /\ Len(execution_logs[t]) = 8
        /\ IsEvent(execution_logs[t][7], << "system", "crew_execution" >>)
        /\ Simulated(execution_logs[t][8])

\* C29: internal invariant violations are loud, not silent: a call of log_execution
\* with a task id that is not in the Task Store fails and leaves no event log and no
\* record for that id (no step ends with an event log of an id that has no record),
\* and a second terminal transition of a task is rejected rather than applied (the
\* status of a terminal task does not change).
C29_ViolationsAreLoud ==
    [][/\ \A id \in DOMAIN execution_logs' : id \in DOMAIN active_tasks'
       /\ \A t \in DOMAIN active_tasks :
              active_tasks[t].status \in { "completed", "failed" }
                  => active_tasks'[t].status = active_tasks[t].status]_vars

\* C30: the worker assigned by task expansion is always usable: for every text and
\* every non-empty available_agents list the agent of create_task_from_nlp (returned
\* by _select_best_agent) is a member of available_agents; for an empty list it is
\* orchestration_coordinator.
C30_AgentIsAvailable ==
    \A i \in 1..Len(calls) :
        calls[i].call = "create_task_from_nlp" =>
            IF calls[i].available_agents = << >>
            THEN calls[i].spec.agent = "orchestration_coordinator"
            ELSE \E j \in 1..Len(calls[i].available_agents) :
                     calls[i].available_agents[j] = calls[i].spec.agent

\* a task text whose action word prefers an agent that is not in the list, and the
\* list has no coordinator either: the first agent of the list is assigned
C30_Witness ==
    \E i \in 1..Len(calls) :
        /\ calls[i].call = "create_task_from_nlp"
        /\ "create" \in calls[i].input
        /\ calls[i].available_agents = << "execution_monitor", "research_intelligence_agent" >>
        /\ calls[i].spec.agent = "execution_monitor"

====
